---- MODULE Spec2Model ----
(***************************************************************************)
(* A model of the MAPI property decoding core of extract_msg:              *)
(*   - prop.py: createProp, PropBase, FixedLengthProp, VariableLengthProp  *)
(*   - enums.py: EntryIDType / EntryIDTypeHex                              *)
(*   - msg_classes/meeting_forward.py: MeetingForwardNotification          *)
(* Byte strings are sequences of 0..255.  Integers wider than 31 bits are  *)
(* kept as their little-endian byte strings and compared digit by digit.   *)
(***************************************************************************)
EXTENDS Integers, Sequences, FiniteSets, TLC

VARIABLES
    string,     \* the blob handed to the last createProp call
    prop,       \* the record that call returned (cls = "None": nothing returned)
    raised,     \* the exception that left the call, "none" when it returned
    log,        \* the records the call gave to the module's logger, in order
    path,       \* [type, branch]: the conversion branch the call's decoder took
    ret,        \* [field, val]: what the last accessor read returned
    member,     \* entry-ID enumeration member in hand
    origin,     \* [how, enum, key]: the lookup that produced the first member
    first,      \* the member that lookup returned
    hops,       \* toHex / toRaw conversions applied since the lookup
    eidRaised,  \* exception raised by the last entry-ID operation
    named,      \* the message's named-property table: key -> [present, val]
    recur,      \* the object's appointmentRecur: "None" or a pattern type
    startDate,  \* the object's startDate: None or a datetime
    endDate,    \* the object's endDate: None or a datetime
    cache,      \* the instance __dict__ slots cached_property fills
    accesses,   \* accessor -> number of reads of it
    computes,   \* accessor -> number of executions of its body
    lookups,    \* key -> number of getNamedProp calls for it
    result,     \* [accessor, val]: what the last accessor read returned
    mfnRaised,  \* exception raised by the last accessor read
    threads     \* thread -> [pc, acc, val, reads, last]: a read in progress

propVars == <<string, prop, raised, log, path, ret>>
eidVars == <<member, origin, first, hops, eidRaised>>
mfnVars == <<named, recur, startDate, endDate, cache, accesses, computes, lookups, result, mfnRaised, threads>>
vars == <<propVars, eidVars, mfnVars>>

(***************************************************************************)
(* Byte strings                                                            *)
(***************************************************************************)
RECURSIVE LE(_, _)
\* struct.pack('<...'): the k-byte little-endian encoding of n
LE(n, k) == IF k = 0 THEN <<>> ELSE <<n % 256>> \o LE(n \div 256, k - 1)

RECURSIVE U(_)
\* struct.unpack of an unsigned little-endian field (used for fields < 2^31)
U(bs) == IF bs = <<>> THEN 0 ELSE Head(bs) + 256 * U(Tail(bs))

RECURSIVE LessLE(_, _)
\* a < b for two little-endian unsigned integers of the same width
LessLE(a, b) ==
    IF a = <<>> THEN FALSE
    ELSE LET n == Len(a) IN
         IF a[n] # b[n] THEN a[n] < b[n]
         ELSE LessLE(SubSeq(a, 1, n - 1), SubSeq(b, 1, n - 1))

Zeros(k) == [i \in 1..k |-> 0]

HexChars == <<"0", "1", "2", "3", "4", "5", "6", "7",
              "8", "9", "A", "B", "C", "D", "E", "F">>

RECURSIVE hexEncode(_)
\* bytes.hex().upper(): two uppercase hex digits per byte
hexEncode(bs) ==
    IF bs = <<>> THEN <<>>
    ELSE <<HexChars[(Head(bs) \div 16) + 1], HexChars[(Head(bs) % 16) + 1]>>
         \o hexEncode(Tail(bs))

\* utils.properHex applied to a byte string
properHex(bs) == hexEncode(bs)

(***************************************************************************)
(* constants.py (struct layouts and the dispatch sets)                     *)
(***************************************************************************)
\* every struct of the property blob (ST2, STFIX, STVAR) spans 16 bytes
StructSize == 16

FIXED_LENGTH_PROPS == {0, 1, 2, 3, 4, 5, 6, 7, 10, 11, 20, 64, 72}

MULTIPLE_2_BYTES_HEX == {4098}
MULTIPLE_4_BYTES_HEX == {4099, 4100}
MULTIPLE_8_BYTES_HEX == {4101, 4103, 4116, 4160}
MULTIPLE_16_BYTES_HEX == {4168}

VARIABLE_LENGTH_PROPS ==
    {13, 30, 31, 251, 253, 254, 258, 4126, 4127, 4354}
    \cup MULTIPLE_2_BYTES_HEX \cup MULTIPLE_4_BYTES_HEX
    \cup MULTIPLE_8_BYTES_HEX \cup MULTIPLE_16_BYTES_HEX

\* constants.ST2.unpack(string): (type, flags)
ST2_unpack(s) == [type |-> U(SubSeq(s, 1, 2)), flags |-> U(SubSeq(s, 5, 6))]
\* constants.STFIX.unpack(string)[0]: the 8 payload bytes
STFIX_unpack(s) == SubSeq(s, 9, 16)
\* constants.STVAR.unpack(string): (length, reserved)
STVAR_unpack(s) == [length |-> U(SubSeq(s, 9, 12)), reserved |-> U(SubSeq(s, 13, 14))]

(***************************************************************************)
(* Values, log records, outcomes                                           *)
(***************************************************************************)
Val(k, d) == [kind |-> k, data |-> d]
NoneVal == Val("None", <<>>)
BoolVal(b) == Val("bool", IF b THEN <<1>> ELSE <<0>>)

IntOf(n) == [none |-> FALSE, n |-> n]
NoneInt == [none |-> TRUE, n |-> 0]

Rec(level, msg, arg) == [level |-> level, msg |-> msg, arg |-> arg]

NoProp ==
    [cls |-> "None", raw |-> <<>>, name |-> <<>>, type |-> 0, flags |-> 0,
     fm |-> FALSE, fr |-> FALSE, fw |-> FALSE, value |-> NoneVal,
     length |-> 0, reserved |-> 0, realLength |-> NoneInt]

NoPath == [type |-> -1, branch |-> "none"]

(***************************************************************************)
(* Names bound in prop.py's module namespace (imports and definitions)     *)
(***************************************************************************)
ModuleNames ==
    {"datetime", "logging", "olefile", "constants", "ErrorCode", "ErrorCodeType",
     "fromTimeStamp", "filetimeToUtc", "properHex", "logger", "createProp",
     "PropBase", "FixedLengthProp", "VariableLengthProp"}

\* a global name lookup inside a function body succeeds iff the name is bound
NameBound(n) == n \in ModuleNames

(***************************************************************************)
(* Collaborators of parseType that live outside prop.py                    *)
(***************************************************************************)
\* constants.STI16 / STI32 / STF32: the leading bytes of the 8-byte payload
STI16_unpack(v) == SubSeq(v, 1, 2)
STI32_unpack(v) == SubSeq(v, 1, 4)
STF32_unpack(v) == SubSeq(v, 1, 4)

\* the closed enumeration of MAPI error codes (little-endian 32-bit values):
\* 0x00000000, 0x80004005, 0x8007000E, 0x80070057
ErrorCodeTypeMembers ==
    {<<0, 0, 0, 0>>, <<5, 64, 0, 128>>, <<14, 0, 7, 128>>, <<87, 0, 7, 128>>}

\* the general error enumeration consulted by the second diagnostic
ErrorTypeMembers == {<<1, 0, 0, 0>>}

\* 116444736000000000 = 0x019DB1DED53E8000, the 1970 epoch in filetime ticks
FILETIME_EPOCH == <<0, 128, 62, 213, 222, 177, 157, 1>>
\* 915151392000000000 = 0x0CB34557A3DD4000, the "no date" sentinel
FILETIME_NULL_DATE == <<0, 64, 221, 163, 87, 69, 179, 12>>
\* 2650467743999999999 = 0x24C85A5ED1C03FFF, the last tick of year 9999
FILETIME_MAX_DATETIME == <<255, 63, 192, 209, 94, 90, 200, 36>>

\* utils.fromTimeStamp(utils.filetimeToUtc(rawtime)) raises (year out of range)
\* exactly when the instant lies beyond datetime.max
fromTimeStampRaises(rawtime) == LessLE(FILETIME_MAX_DATETIME, rawtime)

\* biased exponent of an IEEE-754 double given as 8 little-endian bytes
F64Exponent(v) == (v[8] % 128) * 16 + (v[7] \div 16)

\* PYTPFLOATINGTIME_START + timedelta(days = value) raises for NaN, infinities
\* and any magnitude of 2^22 days or more (biased exponent >= 1045)
floatingTimeRaises(v) == F64Exponent(v) >= 1045

Outcome(v, b, exc, lg) == [value |-> v, branch |-> b, raised |-> exc, log |-> lg]

(***************************************************************************)
(* FixedLengthProp.parseType                                               *)
(***************************************************************************)
parseErrorCode(stream) ==
    LET value == STI32_unpack(stream)
        w1 == Rec("WARNING", "Error type found that was not from Additional Error Codes", value)
        w2 == Rec("WARNING", "REPORT TO DEVELOPERS: Error type was found", value)
    IN  IF value \in ErrorCodeTypeMembers
        THEN Outcome(Val("ErrorCodeType", value), "errorcode_enum", "none", <<>>)
        \* except ValueError: the first warning, then ErrorType(value) is evaluated
        ELSE IF ~NameBound("ErrorType")
        THEN Outcome(Val("int", value), "errorcode_raw", "NameError", <<w1>>)
        ELSE IF value \in ErrorTypeMembers
        THEN Outcome(Val("int", value), "errorcode_raw", "none", <<w1, w2>>)
        ELSE Outcome(Val("int", value), "errorcode_raw", "none", <<w1>>)

\* a handler that lets the exception of its own logging code propagate
parseTimeExceptRaising(raw, stream) ==
    Outcome(Val("bytes", stream), "time_utc", "ValueError", <<Rec("ERROR", "exception", <<>>)>>)

\* the except clause of the Time branch: value is still the raw payload, three
\* records are logged (the exception, the converted timestamp, self.raw)
parseTimeExcept(raw, stream) ==
    Outcome(Val("bytes", stream), "time_utc", "none",
            <<Rec("ERROR", "exception", <<>>),
              Rec("ERROR", "Timestamp value of filetimeToUtc(arg) caused an exception", stream),
              Rec("ERROR", "raw", raw)>>)

\* a Time branch whose first comparison is <= instead of <
parseTimeEpochToOlefile(raw, stream) ==
    LET rawtime == stream
    IN  IF LessLE(rawtime, FILETIME_EPOCH) \/ rawtime = FILETIME_EPOCH
        THEN Outcome(Val("olefile.filetime2datetime", rawtime), "time_olefile", "none", <<>>)
        ELSE IF rawtime # FILETIME_NULL_DATE
        THEN IF fromTimeStampRaises(rawtime)
             THEN parseTimeExcept(raw, stream)
             ELSE Outcome(Val("fromTimeStamp", rawtime), "time_utc", "none", <<>>)
        ELSE Outcome(Val("datetime.max", <<>>), "time_max", "none", <<>>)

parseTime(raw, stream) ==
    LET rawtime == stream
    IN  IF LessLE(rawtime, FILETIME_EPOCH)
        THEN Outcome(Val("olefile.filetime2datetime", rawtime), "time_olefile", "none", <<>>)
        ELSE IF rawtime # FILETIME_NULL_DATE
        THEN IF fromTimeStampRaises(rawtime)
             THEN parseTimeExcept(raw, stream)
             ELSE Outcome(Val("fromTimeStamp", rawtime), "time_utc", "none", <<>>)
        ELSE Outcome(Val("datetime.max", <<>>), "time_max", "none", <<>>)

\* a PtypNull branch that keeps a non-zero payload instead of discarding it
parseNullKeeping(stream) ==
    IF stream # Zeros(8)
    THEN Outcome(Val("bytes", stream), "null_raw", "none", <<>>)
    ELSE Outcome(NoneVal, "null", "none", <<>>)

\* the PtypNull branch: a non-zero payload is only reported, the value is None
parseNull(stream) ==
    Outcome(NoneVal, "null", "none",
            IF stream # Zeros(8)
            THEN <<Rec("WARNING", "Property type is PtypNull, but is not equal to 0.", <<>>)>>
            ELSE <<>>)

parseType(raw, type, stream) ==
    CASE type = 0 -> Outcome(Val("bytes", stream), "unspecified", "none", <<>>)
      [] type = 1 -> parseNull(stream)
      [] type = 2 -> Outcome(Val("int16", STI16_unpack(stream)), "int16", "none", <<>>)
      [] type = 3 -> Outcome(Val("int", STI32_unpack(stream)), "int32", "none", <<>>)
      [] type = 4 -> Outcome(Val("float32", STF32_unpack(stream)), "float32", "none", <<>>)
      [] type = 5 -> Outcome(Val("float64", stream), "float64", "none", <<>>)
      [] type = 6 -> Outcome(Val("int64/10000.0", stream), "currency", "none", <<>>)
      [] type = 7 -> IF floatingTimeRaises(stream)
                     THEN Outcome(Val("float64", stream), "floatingtime", "OverflowError", <<>>)
                     ELSE Outcome(Val("PYTPFLOATINGTIME_START+days", stream), "floatingtime", "none", <<>>)
      [] type = 10 -> parseErrorCode(stream)
      [] type = 11 -> Outcome(BoolVal(stream = LE(1, 8)), "boolean", "none", <<>>)
      [] type = 20 -> Outcome(Val("int64", stream), "int64", "none", <<>>)
      [] type = 64 -> parseTime(raw, stream)
      [] type = 72 -> Outcome(Val("bytes", stream), "guid", "none", <<>>)
      [] OTHER -> Outcome(Val("bytes", stream), "other", "none", <<>>)

(***************************************************************************)
(* PropBase, FixedLengthProp, VariableLengthProp, createProp               *)
(***************************************************************************)
Result(obj, exc, lg, pth) == [obj |-> obj, raised |-> exc, log |-> lg, path |-> pth]

\* flag tests read as flags & (n == n), which tests bit 0 every time
PropBaseBitZeroOnly(s) ==
    LET h == ST2_unpack(s)
    IN  [NoProp EXCEPT !.cls = "PropBase", !.raw = s,
                       !.name = properHex(<<s[4], s[3], s[2], s[1]>>),
                       !.type = h.type, !.flags = h.flags,
                       !.fm = (h.flags % 2 = 1),
                       !.fr = (h.flags % 2 = 1),
                       !.fw = (h.flags % 2 = 1)]

\* PropBase.__init__ on a 16-byte blob
PropBase(s) ==
    LET h == ST2_unpack(s)
    IN  [NoProp EXCEPT !.cls = "PropBase", !.raw = s,
                       !.name = properHex(<<s[4], s[3], s[2], s[1]>>),
                       !.type = h.type, !.flags = h.flags,
                       !.fm = (h.flags % 2 = 1),
                       !.fr = ((h.flags \div 2) % 2 = 1),
                       !.fw = ((h.flags \div 4) % 2 = 1)]

FixedLengthProp(s) ==
    LET base == PropBase(s)
        out == parseType(base.raw, base.type, STFIX_unpack(s))
        pth == [type |-> base.type, branch |-> out.branch]
    IN  IF out.raised # "none"
        THEN Result(NoProp, out.raised, out.log, pth)
        ELSE Result([base EXCEPT !.cls = "FixedLengthProp", !.value = out.value],
                    "none", out.log, pth)

\* the rule with the wide-string terminator counted as one byte
realLengthOfNarrowOnly(type, length) ==
    IF type = 30 \/ type = 31 THEN IntOf(length - 1)
    ELSE IF type \in MULTIPLE_2_BYTES_HEX THEN IntOf(length \div 2)
    ELSE IF type \in MULTIPLE_4_BYTES_HEX THEN IntOf(length \div 4)
    ELSE IF type \in MULTIPLE_8_BYTES_HEX THEN IntOf(length \div 8)
    ELSE IF type \in MULTIPLE_16_BYTES_HEX THEN IntOf(length \div 16)
    ELSE IF type = 13 THEN NoneInt
    ELSE IntOf(length)

realLengthOf(type, length) ==
    IF type = 30 THEN IntOf(length - 1)
    ELSE IF type = 31 THEN IntOf(length - 2)
    ELSE IF type \in MULTIPLE_2_BYTES_HEX THEN IntOf(length \div 2)
    ELSE IF type \in MULTIPLE_4_BYTES_HEX THEN IntOf(length \div 4)
    ELSE IF type \in MULTIPLE_8_BYTES_HEX THEN IntOf(length \div 8)
    ELSE IF type \in MULTIPLE_16_BYTES_HEX THEN IntOf(length \div 16)
    ELSE IF type = 13 THEN NoneInt
    ELSE IntOf(length)

VariableLengthProp(s) ==
    LET base == PropBase(s)
        v == STVAR_unpack(s)
    IN  Result([base EXCEPT !.cls = "VariableLengthProp", !.length = v.length,
                            !.reserved = v.reserved,
                            !.realLength = realLengthOf(base.type, v.length)],
               "none", <<>>, [type |-> base.type, branch |-> "variable"])

\* the warning given for every type outside the fixed-length set
unknownTypeWarningAlways(temp) ==
    <<Rec("WARNING", "Unknown property type", LE(temp, 2))>>

\* the warning createProp gives before it falls back to VariableLengthProp
unknownTypeWarning(temp) ==
    IF temp \notin VARIABLE_LENGTH_PROPS
    THEN <<Rec("WARNING", "Unknown property type", LE(temp, 2))>>
    ELSE <<>>

createProp(s) ==
    IF Len(s) # StructSize
    THEN Result(NoProp, "struct.error", <<>>, NoPath)
    ELSE LET temp == ST2_unpack(s).type
         IN  IF temp \in FIXED_LENGTH_PROPS
             THEN FixedLengthProp(s)
             ELSE LET r == VariableLengthProp(s)
                  IN  [r EXCEPT !.log = unknownTypeWarning(temp) \o @]

(***************************************************************************)
(* Accessors (plain getters of the private fields)                         *)
(***************************************************************************)
PropBase_flagMandatory(obj) == obj.fm
PropBase_flagReadable(obj) == obj.fr
PropBase_flagWritable(obj) == obj.fw
PropBase_flags(obj) == obj.flags
PropBase_name(obj) == obj.name
PropBase_raw(obj) == obj.raw
\* a getter that returns the wrong private field
PropBase_typeFromFlags(obj) == obj.flags
PropBase_type(obj) == obj.type
FixedLengthProp_value(obj) == obj.value
VariableLengthProp_length(obj) == obj.length
VariableLengthProp_realLength(obj) == obj.realLength
VariableLengthProp_reservedFlags(obj) == obj.reserved

(***************************************************************************)
(* Inputs: the property blobs handed to createProp                         *)
(***************************************************************************)
\* encoded lengths 0..MaxLength are tried besides the fixed samples
MaxLength == 3

Pack(type, flags, payload) ==
    LE(type, 2) \o <<55, 0>> \o LE(flags, 2) \o <<0, 0>> \o payload

UnknownTypes == {39321}

FixedPayloads ==
    {Zeros(8), LE(1, 8),
     <<5, 64, 0, 128, 0, 0, 0, 0>>,             \* 0x80004005
     <<0, 0, 0, 0, 0, 0, 240, 63>>,             \* 1.0 as a double
     <<0, 0, 0, 0, 0, 0, 248, 127>>,            \* NaN as a double
     <<255, 127, 62, 213, 222, 177, 157, 1>>,   \* one tick before the epoch
     FILETIME_EPOCH, FILETIME_NULL_DATE,
     <<255, 63, 221, 163, 87, 69, 179, 12>>,    \* one tick before the null date
     <<1, 64, 221, 163, 87, 69, 179, 12>>,      \* one tick after the null date
     <<255, 255, 255, 255, 255, 255, 255, 255>>}

EncodedLengths == (0..MaxLength) \cup {10, 32, 33}

VariablePayloads == {LE(n, 4) \o <<r, 0, 0, 0>> : n \in EncodedLengths, r \in {0}}

FlagValues == (0..8) \cup {256, 65528, 65529, 65534, 65535}

WellFormed ==
    {Pack(t, 6, p) : t \in FIXED_LENGTH_PROPS, p \in FixedPayloads}
    \cup {Pack(t, 6, p) : t \in VARIABLE_LENGTH_PROPS \cup UnknownTypes, p \in VariablePayloads}
    \cup {Pack(3, f, LE(1, 8)) : f \in FlagValues}
    \cup {Pack(30, f, LE(10, 4) \o <<1, 0, 0, 0>>) : f \in FlagValues}

\* blobs whose bytes do not fit the 16-byte layout
Malformed ==
    {SubSeq(Pack(t, 6, Zeros(8)), 1, 15) : t \in {3, 64, 30}}
    \cup {Pack(t, 6, Zeros(8)) \o <<0>> : t \in {3, 30}}
    \cup {<<>>}

Blobs == WellFormed \cup Malformed

\* createProp tabulated over the inputs
Decoded == [s \in Blobs |-> createProp(s)]

NoRet == [field |-> "none", val |-> 0]

(***************************************************************************)
(* The property machine: a caller decodes blobs and reads the records      *)
(***************************************************************************)
InitProp ==
    /\ string = <<>>
    /\ prop = NoProp
    /\ raised = "none"
    /\ log = <<>>
    /\ path = NoPath
    /\ ret = NoRet

CreateProp ==
    \E s \in Blobs :
        LET r == Decoded[s]
        IN  /\ string' = s
            /\ prop' = r.obj
            /\ raised' = r.raised
            /\ log' = r.log
            /\ path' = r.path
            /\ ret' = NoRet
            /\ UNCHANGED <<eidVars, mfnVars>>

Read(field, v) ==
    /\ ret' = [field |-> field, val |-> v]
    /\ UNCHANGED <<string, prop, raised, log, path>>
    /\ UNCHANGED <<eidVars, mfnVars>>

ReadFlagMandatory == prop.cls # "None" /\ Read("flagMandatory", PropBase_flagMandatory(prop))
ReadFlagReadable == prop.cls # "None" /\ Read("flagReadable", PropBase_flagReadable(prop))
ReadFlagWritable == prop.cls # "None" /\ Read("flagWritable", PropBase_flagWritable(prop))
ReadFlags == prop.cls # "None" /\ Read("flags", PropBase_flags(prop))
ReadName == prop.cls # "None" /\ Read("name", PropBase_name(prop))
ReadRaw == prop.cls # "None" /\ Read("raw", PropBase_raw(prop))
ReadType == prop.cls # "None" /\ Read("type", PropBase_type(prop))
ReadValue == prop.cls = "FixedLengthProp" /\ Read("value", FixedLengthProp_value(prop))
ReadLength == prop.cls = "VariableLengthProp" /\ Read("length", VariableLengthProp_length(prop))
ReadRealLength == prop.cls = "VariableLengthProp" /\ Read("realLength", VariableLengthProp_realLength(prop))
ReadReservedFlags == prop.cls = "VariableLengthProp" /\ Read("reservedFlags", VariableLengthProp_reservedFlags(prop))

NextProp ==
    \/ CreateProp
    \/ ReadFlagMandatory
    \/ ReadFlagReadable
    \/ ReadFlagWritable
    \/ ReadFlags
    \/ ReadName
    \/ ReadRaw
    \/ ReadType
    \/ ReadValue
    \/ ReadLength
    \/ ReadRealLength
    \/ ReadReservedFlags


(***************************************************************************)
(* enums.py: EntryIDType and EntryIDTypeHex                                *)
(***************************************************************************)
\* the class bodies, in definition order
EntryIDType_defs ==
    << [name |-> "ADDRESS_BOOK_RECIPIENT",
        value |-> <<220, 167, 64, 200, 192, 66, 16, 26, 180, 185, 8, 0, 43, 47, 225, 130>>],
       [name |-> "CA_OR_PDL_RECIPIENT",
        value |-> <<254, 66, 170, 10, 24, 199, 26, 16, 232, 133, 11, 101, 28, 36, 0, 0>>],
       [name |-> "NNTP_NEWSGROUP_FOLDER",
        value |-> <<56, 161, 187, 16, 5, 229, 16, 26, 161, 187, 8, 0, 43, 42, 86, 194>>],
       [name |-> "ONE_OFF_RECIPIENT",
        value |-> <<129, 43, 31, 164, 190, 163, 16, 25, 157, 110, 0, 221, 1, 15, 84, 2>>],
       [name |-> "PERMANENT",
        value |-> <<220, 167, 64, 200, 192, 66, 16, 26, 180, 185, 8, 0, 43, 47, 225, 130>>],
       [name |-> "PUBLIC_MESSAGE_STORE",
        value |-> <<26, 68, 115, 144, 170, 102, 17, 205, 155, 200, 0, 170, 0, 47, 196, 90>>],
       [name |-> "WRAPPED",
        value |-> <<192, 145, 173, 211, 81, 157, 207, 17, 164, 169, 0, 170, 0, 71, 250, 164>>] >>

Chars(a, b, c, d) == <<a, b, c, d>>

EntryIDTypeHex_defs ==
    << [name |-> "ADDRESS_BOOK_RECIPIENT",
        value |-> Chars("D","C","A","7") \o Chars("4","0","C","8") \o Chars("C","0","4","2") \o Chars("1","0","1","A")
               \o Chars("B","4","B","9") \o Chars("0","8","0","0") \o Chars("2","B","2","F") \o Chars("E","1","8","2")],
       [name |-> "CA_OR_PDL_RECIPIENT",
        value |-> Chars("F","E","4","2") \o Chars("A","A","0","A") \o Chars("1","8","C","7") \o Chars("1","A","1","0")
               \o Chars("E","8","8","5") \o Chars("0","B","6","5") \o Chars("1","C","2","4") \o Chars("0","0","0","0")],
       [name |-> "NNTP_NEWSGROUP_FOLDER",
        value |-> Chars("3","8","A","1") \o Chars("B","B","1","0") \o Chars("0","5","E","5") \o Chars("1","0","1","A")
               \o Chars("A","1","B","B") \o Chars("0","8","0","0") \o Chars("2","B","2","A") \o Chars("5","6","C","2")],
       [name |-> "ONE_OFF_RECIPIENT",
        value |-> Chars("8","1","2","B") \o Chars("1","F","A","4") \o Chars("B","E","A","3") \o Chars("1","0","1","9")
               \o Chars("9","D","6","E") \o Chars("0","0","D","D") \o Chars("0","1","0","F") \o Chars("5","4","0","2")],
       [name |-> "PERMANENT",
        value |-> Chars("D","C","A","7") \o Chars("4","0","C","8") \o Chars("C","0","4","2") \o Chars("1","0","1","A")
               \o Chars("B","4","B","9") \o Chars("0","8","0","0") \o Chars("2","B","2","F") \o Chars("E","1","8","2")],
       [name |-> "PUBLIC_MESSAGE_STORE",
        value |-> Chars("1","A","4","4") \o Chars("7","3","9","0") \o Chars("A","A","6","6") \o Chars("1","1","C","D")
               \o Chars("9","B","C","8") \o Chars("0","0","A","A") \o Chars("0","0","2","F") \o Chars("C","4","5","A")],
       [name |-> "WRAPPED",
        value |-> Chars("C","0","9","1") \o Chars("A","D","D","3") \o Chars("5","1","9","D") \o Chars("C","F","1","1")
               \o Chars("A","4","A","9") \o Chars("0","0","A","A") \o Chars("0","0","4","7") \o Chars("F","A","A","4")] >>

EnumDefs(enum) == IF enum = "EntryIDType" THEN EntryIDType_defs ELSE EntryIDTypeHex_defs

NoMember == [enum |-> "None", name |-> "", value |-> <<>>]

\* enum.Enum class creation: the first name given a value is the member, a
\* later name given the same value is an alias of that member
MemberOfValue(enum, value) ==
    LET defs == EnumDefs(enum)
        i == CHOOSE k \in 1..Len(defs) :
                 /\ defs[k].value = value
                 /\ \A j \in 1..(k - 1) : defs[j].value # value
    IN  [enum |-> enum, name |-> defs[i].name, value |-> value]

EnumNames(enum) == {EnumDefs(enum)[k].name : k \in 1..Len(EnumDefs(enum))}
EnumValues(enum) == {EnumDefs(enum)[k].value : k \in 1..Len(EnumDefs(enum))}

\* Cls[name]: [member, raised]
EnumGetItem(enum, name) ==
    IF name \notin EnumNames(enum)
    THEN [member |-> NoMember, raised |-> "KeyError"]
    ELSE LET defs == EnumDefs(enum)
             k == CHOOSE i \in 1..Len(defs) : defs[i].name = name
         IN  [member |-> MemberOfValue(enum, defs[k].value), raised |-> "none"]

\* Cls(value): [member, raised]
EnumCall(enum, value) ==
    IF value \notin EnumValues(enum)
    THEN [member |-> NoMember, raised |-> "ValueError"]
    ELSE [member |-> MemberOfValue(enum, value), raised |-> "none"]

\* a toHex that indexes its own class
toHexSameClass(self) == EnumGetItem("EntryIDType", self.name)
\* EntryIDType.toHex
toHex(self) == EnumGetItem("EntryIDTypeHex", self.name)
\* EntryIDTypeHex.toRaw
toRaw(self) == EnumGetItem("EntryIDType", self.name)

\* conversions applied after one lookup
MaxHops == 4

UnknownEntryIDs == {Zeros(16)}

NoOrigin == [how |-> "none", enum |-> "None", key |-> <<>>]

InitEid ==
    /\ member = NoMember
    /\ origin = NoOrigin
    /\ first = NoMember
    /\ hops = 0
    /\ eidRaised = "none"

Looked(how, enum, key, r) ==
    /\ member' = r.member
    /\ first' = r.member
    /\ origin' = [how |-> how, enum |-> enum, key |-> key]
    /\ hops' = 0
    /\ eidRaised' = r.raised
    /\ UNCHANGED <<propVars, mfnVars>>

LookupByName ==
    \E enum \in {"EntryIDType", "EntryIDTypeHex"} :
        \E n \in EnumNames(enum) :
            Looked("name", enum, <<n>>, EnumGetItem(enum, n))

LookupByValue ==
    \/ \E v \in EnumValues("EntryIDType") \cup UnknownEntryIDs :
           Looked("value", "EntryIDType", v, EnumCall("EntryIDType", v))
    \/ \E v \in EnumValues("EntryIDTypeHex") \cup {hexEncode(b) : b \in UnknownEntryIDs} :
           Looked("value", "EntryIDTypeHex", v, EnumCall("EntryIDTypeHex", v))

Converted(r) ==
    /\ member' = r.member
    /\ eidRaised' = r.raised
    /\ hops' = hops + 1
    /\ UNCHANGED <<origin, first>>
    /\ UNCHANGED <<propVars, mfnVars>>

ToHex == member.enum = "EntryIDType" /\ hops < MaxHops /\ Converted(toHex(member))

ToRaw == member.enum = "EntryIDTypeHex" /\ hops < MaxHops /\ Converted(toRaw(member))

NextEid == LookupByName \/ LookupByValue \/ ToHex \/ ToRaw

(***************************************************************************)
(* msg_classes/meeting_forward.py: MeetingForwardNotification              *)
(***************************************************************************)
K8261 == <<"8261", "PSETID_APPOINTMENT">>
K8045 == <<"8045", "PSETID_COMMON">>
NamedKeys == {K8261, K8045}

Absent == [present |-> FALSE, val |-> NoneVal]
Present(v) == [present |-> TRUE, val |-> v]

\* MessageBase.getNamedProp: the resolved value, None when the key is not mapped
getNamedProp(tbl, key) == IF tbl[key].present THEN tbl[key].val ELSE NoneVal

\* Python truth value of a property value
Truthy(v) ==
    CASE v.kind = "None" -> FALSE
      [] v.kind = "bool" -> v.data = <<1>>
      [] v.kind = "int" -> U(v.data) # 0
      [] OTHER -> Len(v.data) > 0

\* the bodies of the two cached accessors
forwardNotificationRecipients(tbl) == getNamedProp(tbl, K8261)
\* promptSendUpdate without the bool() conversion
promptSendUpdateRaw(tbl) == getNamedProp(tbl, K8045)
promptSendUpdate(tbl) == BoolVal(Truthy(getNamedProp(tbl, K8045)))

\* the dict literal of headerFormatProperties
RecurStrings ==
    [DAY |-> "Daily", WEEK |-> "Weekly", MONTH |-> "Monthly", MONTH_NTH |-> "Monthly",
     MONTH_END |-> "Monthly", HJ_MONTH |-> "Monthly", HJ_MONTH_NTH |-> "Monthly",
     HJ_MONTH_END |-> "Monthly"]

\* the members of RecurPatternType
RecurPatternType == DOMAIN RecurStrings

\* the table without its Hijri rows
recurDescriptionGregorian(r) ==
    IF r = "None"
    THEN [val |-> "(none)", raised |-> "none"]
    ELSE IF r \in {"DAY", "WEEK", "MONTH", "MONTH_NTH", "MONTH_END"}
    THEN [val |-> RecurStrings[r], raised |-> "none"]
    ELSE [val |-> "", raised |-> "KeyError"]

\* recur = '(none)'; if self.appointmentRecur: recur = {...}[patternType]
recurDescription(r) ==
    IF r = "None"
    THEN [val |-> "(none)", raised |-> "none"]
    ELSE IF r \in DOMAIN RecurStrings
    THEN [val |-> RecurStrings[r], raised |-> "none"]
    ELSE [val |-> "", raised |-> "KeyError"]

\* datetime.__format__(self.datetimeFormat): the text of the datetime
formatDate(d) == Val("str", d.data)

\* X.__format__(self.datetimeFormat) if X else None
dateOrNone(d) == IF d.kind = "None" THEN NoneVal ELSE formatDate(d)

\* the body of headerFormatProperties: [val, raised]
headerFormatProperties(r, start, end) ==
    [val |-> [Recurrance |-> recurDescription(r).val,
              Start |-> dateOrNone(start),
              End |-> dateOrNone(end)],
     raised |-> recurDescription(r).raised]

\* accessor reads per object
MaxAccesses == 4

Accessors == {"forwardNotificationRecipients", "promptSendUpdate", "headerFormatProperties"}
CachedAccessors == {"forwardNotificationRecipients", "promptSendUpdate"}

DateValues == {NoneVal, Val("datetime", <<20, 24, 1, 15>>)}

Values8261 == {Val("bytes", <<>>), Val("bytes", <<1, 0, 0, 0>>)}
Values8045 == {BoolVal(TRUE), BoolVal(FALSE), Val("int", <<0>>), Val("int", <<2>>)}

NoSlot == [set |-> FALSE, val |-> NoneVal]
NoResult == [accessor |-> "none", val |-> NoneVal]

Threads == {1, 2}
IdleThread == [pc |-> "idle", acc |-> "none", val |-> NoneVal, reads |-> 0, last |-> NoResult]

\* a freshly constructed object: nothing read, nothing cached
FreshMfn ==
    /\ cache = [a \in CachedAccessors |-> NoSlot]
    /\ accesses = [a \in Accessors |-> 0]
    /\ computes = [a \in Accessors |-> 0]
    /\ lookups = [k \in NamedKeys |-> 0]
    /\ result = NoResult
    /\ mfnRaised = "none"
    /\ threads = [t \in Threads |-> IdleThread]

InitMfn ==
    /\ \E a \in {Absent} \cup {Present(v) : v \in Values8261} :
       \E b \in {Absent} \cup {Present(v) : v \in Values8045} :
           named = (K8261 :> a) @@ (K8045 :> b)
    /\ recur \in {"None"} \cup DOMAIN RecurStrings
    /\ startDate \in DateValues
    /\ endDate \in DateValues
    /\ FreshMfn

TotalAccesses ==
    accesses["forwardNotificationRecipients"] + accesses["promptSendUpdate"]
    + accesses["headerFormatProperties"]

\* functools.cached_property.__get__: the body runs only when the slot is empty
CachedGet(a, key, v) ==
    /\ TotalAccesses < MaxAccesses
    /\ accesses' = [accesses EXCEPT ![a] = @ + 1]
    /\ IF cache[a].set
       THEN /\ result' = [accessor |-> a, val |-> cache[a].val]
            /\ UNCHANGED <<cache, computes, lookups>>
       ELSE /\ result' = [accessor |-> a, val |-> v]
            /\ cache' = [cache EXCEPT ![a] = [set |-> TRUE, val |-> v]]
            /\ computes' = [computes EXCEPT ![a] = @ + 1]
            /\ lookups' = [lookups EXCEPT ![key] = @ + 1]
    /\ mfnRaised' = "none"
    /\ UNCHANGED <<named, recur, startDate, endDate, threads>>
    /\ UNCHANGED <<propVars, eidVars>>

\* property.__get__: the body runs on every read
PropertyGet(a, out) ==
    /\ TotalAccesses < MaxAccesses
    /\ accesses' = [accesses EXCEPT ![a] = @ + 1]
    /\ computes' = [computes EXCEPT ![a] = @ + 1]
    /\ result' = [accessor |-> a, val |-> out.val]
    /\ mfnRaised' = out.raised
    /\ UNCHANGED <<named, recur, startDate, endDate, cache, lookups, threads>>
    /\ UNCHANGED <<propVars, eidVars>>

AccessForwardNotificationRecipients ==
    CachedGet("forwardNotificationRecipients", K8261, forwardNotificationRecipients(named))

\* promptSendUpdate declared as a plain property
AccessPromptSendUpdateUncached ==
    PropertyGet("promptSendUpdate", [val |-> promptSendUpdate(named), raised |-> "none"])

AccessPromptSendUpdate ==
    CachedGet("promptSendUpdate", K8045, promptSendUpdate(named))

AccessHeaderFormatProperties ==
    PropertyGet("headerFormatProperties", headerFormatProperties(recur, startDate, endDate))

NextMfn ==
    \/ AccessForwardNotificationRecipients
    \/ AccessPromptSendUpdate
    \/ AccessHeaderFormatProperties

(***************************************************************************)
(* Two threads reading one constructed object.  A read of a cached         *)
(* accessor is cached_property.__get__ step by step, with no lock held:    *)
(* look the slot up, run the body on a miss, store the value, return it.   *)
(* (A build whose cached_property takes a lock allows only some of these   *)
(* interleavings.)                                                         *)
(***************************************************************************)
\* reads per thread
MaxThreadReads == 2

KeyOf(a) == IF a = "forwardNotificationRecipients" THEN K8261 ELSE K8045

\* what the body of cached accessor a returns for the object
BodyOf(a) ==
    IF a = "forwardNotificationRecipients"
    THEN forwardNotificationRecipients(named)
    ELSE promptSendUpdate(named)

ThreadFrame == UNCHANGED <<propVars, eidVars, named, recur, startDate, endDate, result, mfnRaised>>

\* thread t starts reading accessor a
ThreadBegin(t) ==
    /\ threads[t].pc = "idle"
    /\ threads[t].reads < MaxThreadReads
    /\ \E a \in CachedAccessors :
           threads' = [threads EXCEPT ![t].pc = "check", ![t].acc = a]
    /\ UNCHANGED <<cache, accesses, computes, lookups>>
    /\ ThreadFrame

\* val = cache.get(attrname, _NOT_FOUND)
ThreadCheck(t) ==
    /\ threads[t].pc = "check"
    /\ threads' = IF cache[threads[t].acc].set
                  THEN [threads EXCEPT ![t].pc = "return", ![t].val = cache[threads[t].acc].val]
                  ELSE [threads EXCEPT ![t].pc = "compute"]
    /\ UNCHANGED <<cache, accesses, computes, lookups>>
    /\ ThreadFrame

\* val = self.func(instance)
ThreadCompute(t) ==
    /\ threads[t].pc = "compute"
    /\ threads' = [threads EXCEPT ![t].pc = "store", ![t].val = BodyOf(threads[t].acc)]
    /\ computes' = [computes EXCEPT ![threads[t].acc] = @ + 1]
    /\ lookups' = [lookups EXCEPT ![KeyOf(threads[t].acc)] = @ + 1]
    /\ UNCHANGED <<cache, accesses>>
    /\ ThreadFrame

\* a store that publishes the slot before the value is known
ThreadStoreEmpty(t) ==
    /\ threads[t].pc = "store"
    /\ cache' = [cache EXCEPT ![threads[t].acc] = [set |-> TRUE, val |-> NoneVal]]
    /\ threads' = [threads EXCEPT ![t].pc = "return"]
    /\ UNCHANGED <<accesses, computes, lookups>>
    /\ ThreadFrame

\* cache[attrname] = val
ThreadStore(t) ==
    /\ threads[t].pc = "store"
    /\ cache' = [cache EXCEPT ![threads[t].acc] = [set |-> TRUE, val |-> threads[t].val]]
    /\ threads' = [threads EXCEPT ![t].pc = "return"]
    /\ UNCHANGED <<accesses, computes, lookups>>
    /\ ThreadFrame

\* return val
ThreadReturn(t) ==
    /\ threads[t].pc = "return"
    /\ threads' = [threads EXCEPT ![t].pc = "idle", ![t].acc = "none", ![t].val = NoneVal,
                                  ![t].reads = @ + 1,
                                  ![t].last = [accessor |-> threads[t].acc, val |-> threads[t].val]]
    /\ accesses' = [accesses EXCEPT ![threads[t].acc] = @ + 1]
    /\ UNCHANGED <<cache, computes, lookups>>
    /\ ThreadFrame

NextThreads ==
    \/ \E t \in Threads : ThreadBegin(t)
    \/ \E t \in Threads : ThreadCheck(t)
    \/ \E t \in Threads : ThreadCompute(t)
    \/ \E t \in Threads : ThreadStore(t)
    \/ \E t \in Threads : ThreadReturn(t)

(***************************************************************************)
(* Specifications: one per component, the other components at rest         *)
(***************************************************************************)
IdleMfn ==
    /\ named = [k \in NamedKeys |-> Absent]
    /\ recur = "None"
    /\ startDate = NoneVal
    /\ endDate = NoneVal
    /\ FreshMfn

Init == InitProp /\ InitEid /\ IdleMfn
Next == NextProp
Spec == Init /\ [][Next]_vars

InitEntryID == InitProp /\ InitEid /\ IdleMfn
SpecEntryID == InitEntryID /\ [][NextEid]_vars

InitMeeting == InitProp /\ InitEid /\ InitMfn
SpecMeeting == InitMeeting /\ [][NextMfn]_vars

InitThreads == InitProp /\ InitEid /\ InitMfn /\ recur = "None" /\ startDate = NoneVal /\ endDate = NoneVal
SpecThreads == InitThreads /\ [][NextThreads]_vars

(***************************************************************************)
(* Properties                                                              *)
(***************************************************************************)
\* the last call was made on a 16-byte blob
Called == Len(string) = StructSize
\* its type code and payload, read off the input bytes
InType == string[1] + 256 * string[2]
InPayload == SubSeq(string, 9, 16)
InLength == string[9] + 256 * string[10] + 65536 * string[11] + 16777216 * string[12]

\* C1: a variable-length record's realLength is length - 1 for type 0x001E,
\* length - 2 for 0x001F, length divided by the element width for the 2-, 4-,
\* 8- and 16-byte array types, None for 0x000D and the length itself otherwise.
C1_RealLengthRule ==
    (Called /\ prop.cls = "VariableLengthProp") =>
        /\ prop.length = InLength
        /\ InType = 30 => prop.realLength = IntOf(InLength - 1)
        /\ InType = 31 => prop.realLength = IntOf(InLength - 2)
        /\ InType \in MULTIPLE_2_BYTES_HEX => prop.realLength = IntOf(InLength \div 2)
        /\ InType \in MULTIPLE_4_BYTES_HEX => prop.realLength = IntOf(InLength \div 4)
        /\ InType \in MULTIPLE_8_BYTES_HEX => prop.realLength = IntOf(InLength \div 8)
        /\ InType \in MULTIPLE_16_BYTES_HEX => prop.realLength = IntOf(InLength \div 16)
        /\ InType = 13 => prop.realLength = NoneInt
        /\ (InType \notin {30, 31, 13} \cup MULTIPLE_2_BYTES_HEX \cup MULTIPLE_4_BYTES_HEX
                       \cup MULTIPLE_8_BYTES_HEX \cup MULTIPLE_16_BYTES_HEX)
               => prop.realLength = IntOf(InLength)
        /\ (InType = 30 /\ InLength = 10) => prop.realLength = IntOf(9)
        /\ (InType = 31 /\ InLength = 10) => prop.realLength = IntOf(8)
        /\ (InType \in MULTIPLE_16_BYTES_HEX /\ InLength = 32) => prop.realLength = IntOf(2)

\* a wide string of encoded length 10 decoded to a record of realLength 8
C1_Witness ==
    /\ Called /\ prop.cls = "VariableLengthProp"
    /\ prop.type = 31 /\ prop.length = 10 /\ prop.realLength = IntOf(8)

\* C2: for a type code outside the fixed-length set createProp does not raise and
\* returns a variable-length record; it logs one warning when the code is also
\* outside the variable-length set and nothing when it is inside.
C2_UnknownTypeFallsBack ==
    (Called /\ InType \notin FIXED_LENGTH_PROPS) =>
        /\ raised = "none"
        /\ prop.cls = "VariableLengthProp"
        /\ InType \notin VARIABLE_LENGTH_PROPS =>
               /\ Len(log) = 1
               /\ log[1].level = "WARNING"
               /\ log[1].arg = <<string[1], string[2]>>
        /\ InType \in VARIABLE_LENGTH_PROPS => log = <<>>

\* type 0x9999 decoded to a variable-length record with one warning
C2_Witness ==
    /\ Called /\ InType = 39321
    /\ raised = "none" /\ prop.cls = "VariableLengthProp" /\ Len(log) = 1

\* C3: decoding an ErrorCode property (type 0x000A) never fails: the value is
\* the enumeration member when the 32-bit value is in the enumeration, and the
\* raw integer with a diagnostic otherwise.
C3_ErrorCodeNeverFails ==
    (Called /\ InType = 10) =>
        /\ raised = "none"
        /\ prop.cls = "FixedLengthProp"
        /\ IF SubSeq(InPayload, 1, 4) \in ErrorCodeTypeMembers
           THEN prop.value = Val("ErrorCodeType", SubSeq(InPayload, 1, 4))
           ELSE /\ prop.value = Val("int", SubSeq(InPayload, 1, 4))
                /\ Len(log) >= 1

\* C4: when the conversion of a Time property (type 0x0040) raises, the record
\* is still constructed, no exception leaves the call, the value is the raw
\* 8-byte payload and an error record carrying the raw bytes is logged.
C4_TimeFailureContained ==
    (Called /\ InType = 64) =>
        /\ raised = "none"
        /\ prop.cls = "FixedLengthProp"
        /\ (/\ ~LessLE(InPayload, FILETIME_EPOCH)
            /\ InPayload # FILETIME_NULL_DATE
            /\ fromTimeStampRaises(InPayload)) =>
               /\ prop.value = Val("bytes", InPayload)
               /\ \E i \in 1..Len(log) : log[i].level = "ERROR" /\ log[i].arg = string
               /\ \E i \in 1..Len(log) : log[i].level = "ERROR" /\ log[i].arg = InPayload

\* the largest 64-bit timestamp was left undecoded and logged
C4_Witness ==
    /\ Called /\ InType = 64 /\ InPayload = [i \in 1..8 |-> 255]
    /\ raised = "none" /\ prop.value = Val("bytes", InPayload) /\ Len(log) = 3

\* C5: no exception leaves createProp for a blob whose bytes do not fit the
\* 16-byte layout.
C5_MalformedNeverEscapes ==
    (string \in Malformed) => raised = "none"

\* the variant returned is decided by the type code
VariantByType ==
    (Called /\ raised = "none") =>
        /\ prop.cls = "FixedLengthProp" <=> InType \in FIXED_LENGTH_PROPS
        /\ prop.cls = "VariableLengthProp" <=> InType \notin FIXED_LENGTH_PROPS

BuiltField(field) ==
    LET obj == Decoded[string].obj
    IN  CASE field = "flagMandatory" -> obj.fm
          [] field = "flagReadable" -> obj.fr
          [] field = "flagWritable" -> obj.fw
          [] field = "flags" -> obj.flags
          [] field = "name" -> obj.name
          [] field = "raw" -> obj.raw
          [] field = "type" -> obj.type
          [] field = "value" -> obj.value
          [] field = "length" -> obj.length
          [] field = "realLength" -> obj.realLength
          [] field = "reservedFlags" -> obj.reserved

\* C9: after construction every read of a field returns the value the
\* constructor stored, and no sequence of reads changes the record.
C9_ReadsAreStable ==
    (prop.cls # "None") =>
        /\ prop = Decoded[string].obj
        /\ ret.field # "none" => ret.val = BuiltField(ret.field)

\* the type of a constructed variable-length record was read
C9_Witness ==
    /\ prop.cls = "VariableLengthProp" /\ prop.type = 4168
    /\ ret.field = "type" /\ ret.val = 4168

\* C6: for every name of the entry-ID enumeration, on either side, the looked-up
\* member converts to the other side's member whose value is the uppercase hex
\* encoding of the same 16 bytes, and converts back to the looked-up member,
\* without error.
C6_EntryIDRoundTrip ==
    (origin.how = "name") =>
        /\ eidRaised = "none"
        /\ first.enum = origin.enum
        /\ \E k \in 1..Len(EnumDefs(origin.enum)) :
               /\ EnumDefs(origin.enum)[k].name = origin.key[1]
               /\ EnumDefs(origin.enum)[k].value = first.value
        /\ IF hops % 2 = 0
           THEN member = first
           ELSE IF origin.enum = "EntryIDType"
           THEN member.enum = "EntryIDTypeHex" /\ member.value = hexEncode(first.value)
           ELSE member.enum = "EntryIDType" /\ hexEncode(member.value) = first.value

\* PERMANENT, looked up on the raw side, went to hex and back
C6_Witness ==
    /\ origin = [how |-> "name", enum |-> "EntryIDType", key |-> <<"PERMANENT">>]
    /\ hops = 2 /\ member = first /\ eidRaised = "none"

C10_AbsentNamedProperty ==
    /\ result.accessor \in CachedAccessors => mfnRaised = "none"
    /\ (result.accessor = "forwardNotificationRecipients" /\ ~named[K8261].present)
           => result.val = NoneVal
    /\ (result.accessor = "promptSendUpdate" /\ ~named[K8045].present)
           => result.val = BoolVal(FALSE)
    /\ (result.accessor = "promptSendUpdate" /\ named[K8045].present)
           => result.val = BoolVal(Truthy(named[K8045].val))

\* promptSendUpdate was read on a message without named property 8045
C10_Witness ==
    /\ result.accessor = "promptSendUpdate" /\ ~named[K8045].present
    /\ result.val = BoolVal(FALSE) /\ mfnRaised = "none"

\* C11: every value a thread's read of a cached accessor returns is the value a
\* single-threaded read returns, and once no read is in progress the cached
\* slots are those a sequential execution of the same reads leaves: filled with
\* the accessor's value exactly for the accessors that were read.
C11_ConcurrentReadsAgree ==
    /\ \A t \in Threads :
           threads[t].last.accessor \in CachedAccessors
               => threads[t].last.val = BodyOf(threads[t].last.accessor)
    /\ (\A t \in Threads : threads[t].pc = "idle") =>
           \A a \in CachedAccessors :
               cache[a] = IF accesses[a] > 0
                          THEN [set |-> TRUE, val |-> BodyOf(a)]
                          ELSE NoSlot

\* both threads missed the empty promptSendUpdate slot, both ran the body, and
\* both have returned
C11_Witness ==
    /\ computes["promptSendUpdate"] = 2
    /\ \A t \in Threads :
           /\ threads[t].pc = "idle"
           /\ threads[t].last = [accessor |-> "promptSendUpdate", val |-> promptSendUpdate(named)]
    /\ cache["promptSendUpdate"].set

HeaderRead == result.accessor = "headerFormatProperties"

TimeDecoded == Called /\ InType = 64 /\ raised = "none"

\* C13 (as stated): a Time value below 116444736000000000 goes to the
\* permissive converter, the value 915151392000000000 becomes datetime.max, and
\* every other value is converted to a UTC timestamp.
C13_EveryOtherTimeConverted ==
    TimeDecoded =>
        prop.value =
            IF LessLE(InPayload, FILETIME_EPOCH)
            THEN Val("olefile.filetime2datetime", InPayload)
            ELSE IF InPayload = FILETIME_NULL_DATE
            THEN Val("datetime.max", <<>>)
            ELSE Val("fromTimeStamp", InPayload)

\* C13 (amended): exactly one of three branches is taken, selected by the raw
\* value alone: below 116444736000000000 the permissive converter, exactly
\* 915151392000000000 datetime.max, otherwise the UTC conversion is attempted,
\* and its result is the value unless the conversion raises, in which case the
\* value stays the raw 8 bytes.
C13_TimeThreeWayPolicy ==
    TimeDecoded =>
        /\ path.branch = (IF LessLE(InPayload, FILETIME_EPOCH) THEN "time_olefile"
                   ELSE IF InPayload = FILETIME_NULL_DATE THEN "time_max"
                   ELSE "time_utc")
        /\ path.branch = "time_olefile" => prop.value = Val("olefile.filetime2datetime", InPayload)
        /\ path.branch = "time_max" => prop.value = Val("datetime.max", <<>>)
        /\ path.branch = "time_utc" =>
               prop.value = IF fromTimeStampRaises(InPayload)
                            THEN Val("bytes", InPayload)
                            ELSE Val("fromTimeStamp", InPayload)

\* the epoch value itself is converted, not handed to the permissive converter
C13_Witness ==
    /\ TimeDecoded
    /\ InPayload = FILETIME_EPOCH
    /\ path.branch = "time_utc"
    /\ prop.value = Val("fromTimeStamp", FILETIME_EPOCH)

\* the 16-bit flags word of the input bytes
InFlags == string[5] + 256 * string[6]
\* bit n of a flags word
Bit(f, n) == (f \div (2 ^ n)) % 2 = 1

\* C14: for every flags word, flagMandatory is bit 0 (mask 1), flagReadable is
\* bit 1 (mask 2), flagWritable is bit 2 (mask 4), and flags is the whole word
\* unmodified; the higher bits change none of the three booleans.
C14_FlagBits ==
    (Called /\ raised = "none") =>
        /\ PropBase_flagMandatory(prop) = Bit(InFlags, 0)
        /\ PropBase_flagReadable(prop) = Bit(InFlags, 1)
        /\ PropBase_flagWritable(prop) = Bit(InFlags, 2)
        /\ PropBase_flags(prop) = InFlags
        /\ ret.field = "flagMandatory" => ret.val = Bit(InFlags % 8, 0)
        /\ ret.field = "flagReadable" => ret.val = Bit(InFlags % 8, 1)
        /\ ret.field = "flagWritable" => ret.val = Bit(InFlags % 8, 2)
        /\ ret.field = "flags" => ret.val = InFlags

\* flags 0xFFF9: every high bit set, mandatory only among the low three
C14_Witness ==
    /\ Called /\ raised = "none"
    /\ InFlags = 65529
    /\ ret = [field |-> "flagReadable", val |-> FALSE]
    /\ prop.fm /\ ~prop.fw /\ prop.flags = 65529

\* C15: the realLength of every variable-length record is None or an integer
\* from 0 up to the encoded length, also for types 0x001E and 0x001F with an
\* encoded length of 0 or 1.
C15_RealLengthWithinLength ==
    (Called /\ raised = "none" /\ prop.cls = "VariableLengthProp") =>
        \/ VariableLengthProp_realLength(prop) = NoneInt
        \/ /\ VariableLengthProp_realLength(prop).n >= 0
           /\ VariableLengthProp_realLength(prop).n <= VariableLengthProp_length(prop)

====
